---- MODULE Spec2Model ----
(***************************************************************************)
(* A model of the telemetry analysis scripts of influx_data_grab.          *)
(*                                                                         *)
(*  - get_frequency (ramana.py): the windowed row query, the per-window    *)
(*    gap accounting, the effective duration and the per-field counts.     *)
(*  - run_queries (1.0.2_2.py, 1.0.7.py): the aggregate COUNT mode.        *)
(*                                                                         *)
(* Instants are integers in ticks, TicksPerSecond ticks to the second, so  *)
(* that a stored timestamp can carry a fraction of a second; the user's    *)
(* wall-clock inputs are whole seconds.                                    *)
(***************************************************************************)
EXTENDS Integers, Sequences, FiniteSets, TLC

\* ------------------------------------------------------------------ bounds

\* Resolution of a stored timestamp in the model (the store keeps nanoseconds).
TicksPerSecond == 2

\* The range lengths tried are multiples of this many minutes ...
RangeStepMinutes == 20

\* ... from -1 (end before start) to this many steps.
MaxRangeSteps == 3

\* The largest number of rows the store holds for the vehicle and measurement.
MaxRows == 3

\* A small row cap passed as batch_size, beside the default.
SmallBatchSize == 2

\* The largest number of lines of a channel map file read line by line.
MaxLines == 4

\* The largest number of measurements main goes through.
MaxMeasurements == 2

\* How often the Run button is clicked at most.
MaxClicks == 2

\* The largest number of metadata entries the user fills in.
MaxFilled == 1

\* ------------------------------------------------------- program constants

\* pd.Timedelta(minutes=30): the window size.
WindowMinutes == 30

\* data['time_diff'] > 4: the gap threshold, in seconds.
GapThresholdSeconds == 4

\* batch_size=100000: the default row cap.
DefaultBatchSize == 100000

\* start_time = '11:00:00' of main, as seconds of the local day.
StartLocalSeconds == 39600

\* pytz.timezone('Asia/Kolkata'): UTC+05:30, in seconds.
KolkataOffsetSeconds == 19800

\* ----------------------------------------------------------------- helpers

Min(a, b) == IF a < b THEN a ELSE b

Range(s) == {s[i] : i \in DOMAIN s}

RECURSIVE SeqSum(_)
\* The sum of a sequence of numbers, taken by halves.
SeqSum(s) ==
    IF s = <<>> THEN 0
    ELSE IF Len(s) = 1 THEN s[1]
    ELSE SeqSum(SubSeq(s, 1, Len(s) \div 2)) + SeqSum(SubSeq(s, Len(s) \div 2 + 1, Len(s)))

RECURSIVE Flatten(_)
\* pd.concat(all_data): the batches one after another.
Flatten(ss) == IF ss = <<>> THEN <<>> ELSE Head(ss) \o Flatten(Tail(ss))

\* A duration of whole seconds, in ticks.
Seconds(n) == n * TicksPerSecond

WindowSize == Seconds(WindowMinutes * 60)

\* pd.Timestamp(f'{date} {time}').tz_localize(local_tz).tz_convert('UTC'):
\* the wall-clock second of Asia/Kolkata as an instant in UTC.
ToUTC(local_seconds) == Seconds(local_seconds - KolkataOffsetSeconds)

\* ---------------------------------------------------------------- the state

VARIABLES
    \* get_frequency: its arguments
    can_id_fields,        \* the channel map, in dict order: <<[can_id, fields]>>
    batch_size,           \* the row cap of a window query
    start_local,          \* start_date start_time, seconds of Asia/Kolkata
    end_local,            \* end_date end_time, seconds of Asia/Kolkata
    \* the store, as its queries see it
    columns,              \* the field keys of the measurement's rows
    store,                \* timestamp -> the fields that are non-null in the row
    \* get_frequency: its locals
    frequency_dict,       \* can_id -> field -> count
    current_time,         \* the window cursor
    final_end_time,       \* the range end, in UTC
    total_gap_duration,   \* the accumulated gap, in ticks
    all_data,             \* the non-empty batches, in window order
    data,                 \* the batch of the last window queried
    queries,              \* the window queries sent: <<[lo, hi, limit]>>
    outcome,              \* "running", "returned" or "raised"
    error,                \* the exception that ended the call, or "none"
    returned,             \* <<>>, or <<frequency_dict, effective_time>>
    \* run_queries: the script, its params and its surroundings
    version,              \* "1.0.2_2" or "1.0.7"
    port_ok,              \* int(params['port']) succeeds
    timezone,             \* params['timezone']
    datetime_ok,          \* the date and time strings parse and localize
    use_csv,              \* params['use_csv']
    csv_file,             \* [status, lines]: the channel map file
    reachable,            \* the store answers (else every query raises)
    db,                   \* the measurements of the store: <<[name, fields, rows]>>
    \* run_queries: its locals and effects
    pc,                   \* where run_queries is
    client,               \* "none", "open" or "closed"
    closes,               \* how often client.close() was called
    sent,                 \* the queries sent to the store, in order
    reported,             \* the messages logged, in order
    start_dt,             \* <<>> or <<the start timestamp>>
    end_dt,               \* <<>> or <<the end timestamp>>
    total_hours,          \* the data duration found, in ticks
    measurements_fields,  \* the channel map: <<[measurement, fields]>>
    results_list,         \* <<[Measurement_Field, Count]>>
    files_written,        \* the result files written, each its rows
    \* load_measurements_fields: its file and its locals
    file_lines,           \* the lines of the file read
    line_no,              \* how many lines the for loop has taken
    current_measurement,  \* the measurement of the open block, "" for None
    parsed,               \* the dictionary built so far: <<[measurement, fields]>>
    \* main of ramana.py
    measurements_data,    \* <<[can_id_fields, store]>>: the measurements gone through
    measurement_no,       \* the measurement get_frequency was last called for
    printed,              \* what main has printed: the results, in order
    \* the query form of the GUI
    run_button,           \* "normal" or "disabled"
    workers,              \* the worker threads started and not yet ended
    clicks,               \* how often Run was clicked
    \* the metadata form of 1.0.7 and its template file
    metadata_entries,     \* field -> the text of its entry
    comments_text,        \* the text of the comments box
    template_file,        \* <<>> (no file) or <<the rows [name, value] of the file>>
    saved_form,           \* <<>> or <<[entries, comments]>>: the form when last saved
    last_handler          \* the handler of the metadata form that ran last

gfVars == <<can_id_fields, batch_size, start_local, end_local, columns, store,
            frequency_dict, current_time, final_end_time, total_gap_duration,
            all_data, data, queries, outcome, error, returned>>

\* The state of get_frequency that run_queries has no part in.
gfOnly == <<can_id_fields, batch_size, columns, store, frequency_dict, current_time,
            final_end_time, total_gap_duration, all_data, data, queries, outcome,
            error, returned>>

rqVars == <<version, port_ok, timezone, datetime_ok, use_csv, csv_file, reachable,
            db, pc, client, closes, sent, reported, start_dt, end_dt, total_hours,
            measurements_fields, results_list, files_written>>

lfVars == <<file_lines, line_no, current_measurement, parsed>>

mainVars == <<measurements_data, measurement_no, printed>>

guiVars == <<run_button, workers, clicks>>

metaVars == <<metadata_entries, comments_text, template_file, saved_form,
              last_handler>>

vars == <<gfVars, rqVars, lfVars, mainVars, guiVars, metaVars>>

\* No query form: run_queries is called directly.
GuiIdle ==
    /\ run_button = "normal"
    /\ workers = 0
    /\ clicks = 0

\* No metadata form.
MetaIdle ==
    /\ metadata_entries = <<>>
    /\ comments_text = ""
    /\ template_file = <<>>
    /\ saved_form = <<>>
    /\ last_handler = "none"

\* main not run: get_frequency is called on its own.
MainIdle ==
    /\ measurements_data = <<>>
    /\ measurement_no = 0
    /\ printed = <<>>

\* load_measurements_fields not called on its own.
LoadIdle ==
    /\ file_lines = <<>>
    /\ line_no = 0
    /\ current_measurement = ""
    /\ parsed = <<>>

\* run_queries not called.
RunQueriesIdle ==
    /\ version = "1.0.2_2"
    /\ port_ok = TRUE
    /\ timezone = "Asia/Kolkata"
    /\ datetime_ok = TRUE
    /\ use_csv = FALSE
    /\ csv_file = [status |-> "missing", lines |-> <<>>]
    /\ reachable = TRUE
    /\ db = <<>>
    /\ pc = "idle"
    /\ client = "none"
    /\ closes = 0
    /\ sent = <<>>
    /\ reported = <<>>
    /\ start_dt = <<>>
    /\ end_dt = <<>>
    /\ total_hours = 0
    /\ measurements_fields = <<>>
    /\ results_list = <<>>
    /\ files_written = <<>>

\* get_frequency not called.
GetFrequencyIdle ==
    /\ can_id_fields = <<>>
    /\ batch_size = 0
    /\ columns = {}
    /\ store = <<>>
    /\ frequency_dict = <<>>
    /\ current_time = 0
    /\ final_end_time = 0
    /\ total_gap_duration = 0
    /\ all_data = <<>>
    /\ data = <<>>
    /\ queries = <<>>
    /\ outcome = "idle"
    /\ error = "none"
    /\ returned = <<>>

\* ---------------------------------------------------------------- the store

\* The field names of the model: f3 is a key of no row.
StoreColumnSets == {{"f1"}, {"f1", "f2"}}

\* Offsets from the range start, in ticks, of the timestamps a row may carry:
\* around the gap threshold with and without a fraction of a second, at both
\* sides of the first window boundary, and inside the second window.
CandidateOffsets ==
    {0, 1, Seconds(GapThresholdSeconds) + 1, Seconds(GapThresholdSeconds + 1),
     WindowSize - 1, WindowSize, WindowSize + WindowSize \div 2}

CandidateTimes == {ToUTC(StartLocalSeconds) + o : o \in CandidateOffsets}

\* Every store content of at most MaxRows rows over the given columns: a row
\* has a value in f1 and may have none in the other columns.
Stores(cols) ==
    UNION {[T -> {S \in SUBSET cols : "f1" \in S}] :
             T \in {U \in SUBSET CandidateTimes : Cardinality(U) <= MaxRows}}

\* A slip: the upper bound of the filter taken inclusive.
InWindowClosed(t, lo, hi) == lo <= t /\ t <= hi

\* WHERE time >= lo AND time < hi
InWindow(t, lo, hi) == lo <= t /\ t < hi

RECURSIVE SortByTime(_)
\* ORDER BY time ASC
SortByTime(T) ==
    IF T = {} THEN <<>>
    ELSE IF Cardinality(T) = 1 THEN <<CHOOSE x \in T : TRUE>>
    ELSE LET mid == CHOOSE x \in T :
                      Cardinality({y \in T : y < x}) = Cardinality(T) \div 2
         IN  SortByTime({y \in T : y < mid}) \o SortByTime({y \in T : y >= mid})

\* A slip: the cap keeps the latest rows.
LimitLast(s, n) == SubSeq(s, Len(s) - Min(n, Len(s)) + 1, Len(s))

\* LIMIT n
Limit(s, n) == SubSeq(s, 1, Min(n, Len(s)))

\* list(client.query(...).get_points()) of the window query: the rows of
\* [lo, hi) in ascending time order, cut at the row cap.
QueryRows(lo, hi, limit) ==
    LET ts == Limit(SortByTime({t \in DOMAIN store : InWindow(t, lo, hi)}), limit)
    IN  [i \in 1..Len(ts) |-> [time |-> ts[i], nonnull |-> store[ts[i]]]]

\* SELECT COUNT("field") ... WHERE time >= lo AND time < hi, as
\* list(result.get_points()): one point holding the count, or no point when no
\* row of the range has a value in the field.
CountPoints(f, lo, hi) ==
    LET n == Cardinality({t \in DOMAIN store : lo <= t /\ t < hi /\ f \in store[t]})
    IN  IF n = 0 THEN <<>> ELSE <<[count |-> n]>>

\* get_count_for_field, its query succeeding: the count of the first point, or 0.
GetCountForField(f, lo, hi) ==
    LET points == CountPoints(f, lo, hi)
    IN  IF points # <<>> THEN points[1].count ELSE 0

\* ------------------------------------------------------- get_frequency

\* The channel maps tried: empty, one field, two fields of one channel, and a
\* second channel whose field is a key of no row.
ChannelMaps ==
    { <<>>,
      <<[can_id |-> "c1", fields |-> <<"f1">>]>>,
      <<[can_id |-> "c1", fields |-> <<"f1", "f2">>]>>,
      <<[can_id |-> "c1", fields |-> <<"f1">>], [can_id |-> "c2", fields |-> <<"f3">>]>> }

CanIds(map) == {map[i].can_id : i \in DOMAIN map}

FieldsOf(map, c) == UNION {Range(map[i].fields) : i \in {j \in DOMAIN map : map[j].can_id = c}}

\* {can_id: {field: 0 for field in fields} for can_id, fields in can_id_fields.items()}
InitFrequency(map) == [c \in CanIds(map) |-> [f \in FieldsOf(map, c) |-> 0]]

\* pd.to_datetime(data['time'], utc=True).astype(int) // 10**9: the whole
\* second of a timestamp.
Epoch(t) == t \div TicksPerSecond

\* data['epoch'].diff(), without the NaN of the first row.
TimeDiff(batch) ==
    [i \in 1..(Len(batch) - 1) |-> Epoch(batch[i + 1].time) - Epoch(batch[i].time)]

\* A slip: the size of the delta compared, whatever its sign.
IsGapEitherWay(d) == d > GapThresholdSeconds \/ 0 - d > GapThresholdSeconds

\* data['time_diff'] > 4
IsGap(d) == d > GapThresholdSeconds

\* gaps = data[data['time_diff'] > 4]
Gaps(batch) == SelectSeq(TimeDiff(batch), IsGap)

\* A slip: the whole interval counted as lost, not its excess.
GapSecondsWhole(batch) == SeqSum(Gaps(batch))

\* gaps['time_diff'].sum() - 4 * len(gaps)
GapSeconds(batch) == SeqSum(Gaps(batch)) - GapThresholdSeconds * Len(Gaps(batch))

\* A slip: the last sample of the batch before taken along, so that the
\* interval across the window boundary counts as well.
AddGapsCarried(total, batch) ==
    LET joined == IF data = <<>> THEN batch ELSE <<data[Len(data)]>> \o batch
    IN  IF Gaps(joined) # <<>> THEN total + Seconds(GapSeconds(joined)) ELSE total

\* if not gaps.empty: total_gap_duration += pd.Timedelta(seconds=...)
AddGaps(total, batch) ==
    IF Gaps(batch) # <<>> THEN total + Seconds(GapSeconds(batch)) ELSE total

\* A slip: the cursor left where it is.
NextTimeStuck(t) == t

\* next_time = current_time + pd.Timedelta(minutes=30)
NextTime(t) == t + WindowSize

\* The interval the window query names, and its row cap.
WindowQuery(t) == [lo |-> t, hi |-> NextTime(t), limit |-> batch_size]

\* A slip: an empty batch handled like any other.
NotEmptyAlways(rows) == TRUE

\* if not data.empty:
NotEmpty(rows) == rows # <<>>

\* A slip: the loop takes one more pass when the cursor is at the range end.
MoreWindowsInclusive == current_time <= final_end_time

\* while current_time < final_end_time:
MoreWindows == current_time < final_end_time

\* The body of the while loop once client.query has returned rows.
WindowPass(q, rows) ==
    /\ queries' = Append(queries, q)
    /\ data' = rows
    /\ IF NotEmpty(rows)
       THEN /\ total_gap_duration' = AddGaps(total_gap_duration, rows)
            /\ all_data' = Append(all_data, rows)
       ELSE UNCHANGED <<total_gap_duration, all_data>>
    /\ current_time' = q.hi

\* One pass of the while loop whose query succeeds.
QueryWindow ==
    /\ outcome = "running"
    /\ MoreWindows
    /\ LET q == WindowQuery(current_time)
       IN  WindowPass(q, QueryRows(q.lo, q.hi, q.limit))
    /\ UNCHANGED <<can_id_fields, batch_size, start_local, end_local, columns,
                   store, frequency_dict, final_end_time, outcome, error, returned>>
    /\ UNCHANGED rqVars
    /\ UNCHANGED lfVars
    /\ UNCHANGED mainVars
    /\ UNCHANGED <<guiVars, metaVars>>

\* What get_frequency does when client.query raises: nothing catches it.
OnQueryError == [outcome |-> "raised", advance |-> FALSE]

\* One pass of the while loop whose query raises (store unreachable, timeout,
\* rejected query).
QueryRaises ==
    /\ outcome = "running"
    /\ MoreWindows
    /\ queries' = Append(queries, WindowQuery(current_time))
    /\ outcome' = OnQueryError.outcome
    /\ error' = IF OnQueryError.outcome = "raised" THEN "QueryError" ELSE error
    /\ current_time' = IF OnQueryError.advance THEN NextTime(current_time) ELSE current_time
    /\ UNCHANGED <<can_id_fields, batch_size, start_local, end_local, columns,
                   store, frequency_dict, final_end_time, total_gap_duration,
                   all_data, data, returned>>
    /\ UNCHANGED rqVars
    /\ UNCHANGED lfVars
    /\ UNCHANGED mainVars
    /\ UNCHANGED <<guiVars, metaVars>>

\* A slip: the range length taken from the advanced cursor.
EffectiveTimeFromCursor == (final_end_time - current_time) - total_gap_duration

\* (final_end_time - pd.Timestamp(f'{start_date} {start_time}')...) - total_gap_duration
EffectiveTime == (final_end_time - ToUTC(start_local)) - total_gap_duration

\* The (can_id, field) pairs in the order the counting loops visit them.
RECURSIVE Pairs(_)
Pairs(map) ==
    IF map = <<>> THEN <<>>
    ELSE [i \in DOMAIN Head(map).fields |-> <<Head(map).can_id, Head(map).fields[i]>>]
         \o Pairs(Tail(map))

\* concatenated_data[field].count(): the rows of the frame whose field is not null.
ColumnCount(frame, f) == Cardinality({i \in DOMAIN frame : f \in frame[i].nonnull})

\* The keys of a point of list(results.get_points()), 'time' aside: the
\* columns of the measurement, a None under those the row has no value in.
PointKeys == columns

\* concatenated_data[field] raises KeyError when the frame has no such column.
HasColumn(f) == f \in PointKeys

\* The counting loops over a non-empty frame: the index of the first pair
\* whose field is no column of the frame, or 0.
FirstMissing(map) ==
    LET ps == Pairs(map)
        bad == {i \in DOMAIN ps : ~HasColumn(ps[i][2])}
    IN  IF bad = {} THEN 0 ELSE CHOOSE i \in bad : \A j \in bad : i <= j

\* frequency_dict after the counting loops visited the first n pairs.
Counted(map, frame, n) ==
    LET ps == Pairs(map)
    IN  [c \in CanIds(map) |->
          [f \in FieldsOf(map, c) |->
             IF \E i \in 1..n : ps[i] = <<c, f>>
             THEN ColumnCount(frame, f)
             ELSE frequency_dict[c][f]]]

\* A slip: the concatenation and the counting loops run without the guard.
HaveDataAlways == TRUE

\* if all_data:
HaveData == all_data # <<>>

\* The code after the loop: the effective time, the concatenation, the counts
\* and the return.
Finish ==
    /\ outcome = "running"
    /\ ~MoreWindows
    /\ LET frame == Flatten(all_data)
           miss == FirstMissing(can_id_fields)
           n == Len(Pairs(can_id_fields))
       IN  IF HaveData /\ miss # 0
           THEN /\ frequency_dict' = Counted(can_id_fields, frame, miss - 1)
                /\ outcome' = "raised"
                /\ error' = "KeyError"
                /\ UNCHANGED returned
           ELSE /\ frequency_dict' =
                     IF HaveData THEN Counted(can_id_fields, frame, n)
                     ELSE frequency_dict
                /\ outcome' = "returned"
                /\ returned' = <<frequency_dict', EffectiveTime>>
                /\ UNCHANGED error
    /\ UNCHANGED <<can_id_fields, batch_size, start_local, end_local, columns,
                   store, current_time, final_end_time, total_gap_duration,
                   all_data, data, queries>>
    /\ UNCHANGED rqVars
    /\ UNCHANGED lfVars
    /\ UNCHANGED mainVars
    /\ UNCHANGED <<guiVars, metaVars>>

\* The state when the loop is first reached (lines 6 to 14).
Init ==
    /\ can_id_fields \in ChannelMaps
    /\ batch_size \in {SmallBatchSize, DefaultBatchSize}
    /\ start_local = StartLocalSeconds
    /\ end_local \in {StartLocalSeconds + k * RangeStepMinutes * 60 : k \in -1..MaxRangeSteps}
    /\ columns \in StoreColumnSets
    /\ store \in Stores(columns)
    /\ frequency_dict = InitFrequency(can_id_fields)
    /\ current_time = ToUTC(start_local)
    /\ final_end_time = ToUTC(end_local)
    /\ total_gap_duration = 0
    /\ all_data = <<>>
    /\ data = <<>>
    /\ queries = <<>>
    /\ outcome = "running"
    /\ error = "none"
    /\ returned = <<>>
    /\ RunQueriesIdle
    /\ LoadIdle
    /\ MainIdle
    /\ GuiIdle
    /\ MetaIdle

Next == QueryWindow \/ QueryRaises \/ Finish

Spec == Init /\ [][Next]_vars

\* get_frequency called with every channel map and range over a store of at
\* most one row.
InitFair ==
    /\ can_id_fields \in ChannelMaps
    /\ batch_size = DefaultBatchSize
    /\ start_local = StartLocalSeconds
    /\ end_local \in {StartLocalSeconds + k * RangeStepMinutes * 60 : k \in -1..MaxRangeSteps}
    /\ columns = {"f1"}
    /\ store \in {st \in Stores(columns) : Cardinality(DOMAIN st) <= 1}
    /\ frequency_dict = InitFrequency(can_id_fields)
    /\ current_time = ToUTC(start_local)
    /\ final_end_time = ToUTC(end_local)
    /\ total_gap_duration = 0
    /\ all_data = <<>>
    /\ data = <<>>
    /\ queries = <<>>
    /\ outcome = "running"
    /\ error = "none"
    /\ returned = <<>>
    /\ RunQueriesIdle
    /\ LoadIdle
    /\ MainIdle
    /\ GuiIdle
    /\ MetaIdle

\* get_frequency runs in one thread that is never held back: whenever a
\* statement can be executed, one is.
SpecFair == InitFair /\ [][Next]_vars /\ WF_vars(Next)

\* ------------------------------------------------------- main of ramana.py

\* The measurements main may go through: a channel map that is empty or
\* names the field f1, and a store of rows at the range start, five seconds
\* later and at the start of the second window.
MeasurementInputs ==
    LET t0 == ToUTC(StartLocalSeconds)
    IN  {[can_id_fields |-> m, store |-> st] :
           m \in {<<>>, <<[can_id |-> "c1", fields |-> <<"f1">>]>>},
           st \in {x \in Stores({"f1"}) :
                     DOMAIN x \subseteq {t0, t0 + Seconds(GapThresholdSeconds + 1),
                                         t0 + WindowSize}}}

\* A slip: the accumulators live outside get_frequency and keep what the
\* call before left in them.
LocalsKept(map) ==
    [frequency_dict |-> InitFrequency(map),
     total_gap_duration |-> total_gap_duration,
     all_data |-> all_data]

\* The locals get_frequency creates before its loop (lines 6, 13 and 14).
FreshLocals(map) ==
    [frequency_dict |-> InitFrequency(map),
     total_gap_duration |-> 0,
     all_data |-> <<>>]

\* The for loop of main: what the call before returned is printed, and
\* get_frequency is called for the next measurement, or main ends.
MainLoop ==
    /\ outcome \in {"idle", "returned"}
    /\ printed' = IF outcome = "returned" THEN Append(printed, returned) ELSE printed
    /\ IF measurement_no < Len(measurements_data)
       THEN LET next == measurements_data[measurement_no + 1]
                locals == FreshLocals(next.can_id_fields)
            IN  /\ measurement_no' = measurement_no + 1
                /\ can_id_fields' = next.can_id_fields
                /\ store' = next.store
                /\ frequency_dict' = locals.frequency_dict
                /\ current_time' = ToUTC(start_local)
                /\ final_end_time' = ToUTC(end_local)
                /\ total_gap_duration' = locals.total_gap_duration
                /\ all_data' = locals.all_data
                /\ data' = <<>>
                /\ queries' = <<>>
                /\ outcome' = "running"
                /\ returned' = <<>>
       ELSE /\ outcome' = "ended"
            /\ UNCHANGED <<measurement_no, can_id_fields, store, frequency_dict,
                           current_time, final_end_time, total_gap_duration,
                           all_data, data, queries, returned>>
    /\ UNCHANGED <<batch_size, start_local, end_local, columns, error,
                   measurements_data>>
    /\ UNCHANGED rqVars
    /\ UNCHANGED lfVars
    /\ UNCHANGED <<guiVars, metaVars>>

\* main is started: the measurements, the range of two windows and the
\* default row cap are fixed, get_frequency has not been called yet.
InitMain ==
    /\ measurements_data \in UNION {[1..n -> MeasurementInputs] : n \in 1..MaxMeasurements}
    /\ measurement_no = 0
    /\ printed = <<>>
    /\ can_id_fields = <<>>
    /\ batch_size = DefaultBatchSize
    /\ start_local = StartLocalSeconds
    /\ end_local = StartLocalSeconds + 2 * WindowMinutes * 60
    /\ columns = {"f1"}
    /\ store = <<>>
    /\ frequency_dict = <<>>
    /\ current_time = 0
    /\ final_end_time = 0
    /\ total_gap_duration = 0
    /\ all_data = <<>>
    /\ data = <<>>
    /\ queries = <<>>
    /\ outcome = "idle"
    /\ error = "none"
    /\ returned = <<>>
    /\ RunQueriesIdle
    /\ LoadIdle
    /\ GuiIdle
    /\ MetaIdle

NextMain == MainLoop \/ QueryWindow \/ QueryRaises \/ Finish

SpecMain == InitMain /\ [][NextMain]_vars

\* ------------------------------- get_frequency with a client that reorders

\* The rows of a batch in every order a client may hand them over in.
Reorderings(rows) ==
    {[i \in DOMAIN rows |-> rows[p[i]]] : p \in Permutations(DOMAIN rows)}

\* One pass of the while loop whose query succeeds, the client handing the
\* selected rows over in any order (the order asked for among them).
QueryWindowReordered ==
    /\ outcome = "running"
    /\ MoreWindows
    /\ LET q == WindowQuery(current_time)
       IN  \E rows \in Reorderings(QueryRows(q.lo, q.hi, q.limit)) : WindowPass(q, rows)
    /\ UNCHANGED <<can_id_fields, batch_size, start_local, end_local, columns,
                   store, frequency_dict, final_end_time, outcome, error, returned>>
    /\ UNCHANGED rqVars
    /\ UNCHANGED lfVars
    /\ UNCHANGED mainVars
    /\ UNCHANGED <<guiVars, metaVars>>

NextReordered == QueryWindowReordered \/ QueryRaises \/ Finish

SpecReordered == Init /\ [][NextReordered]_vars

\* ------------------------------------------- get_frequency on sampled data

\* The rows of a vehicle sampled every period seconds over the first
\* range_seconds of the range, but for an outage of outage_minutes that
\* starts outage_start minutes in: each row holds a value in field temp.
SampledStore(period, range_seconds, outage_start, outage_minutes) ==
    LET t0 == ToUTC(StartLocalSeconds)
        kept == {k \in 0..((range_seconds - 1) \div period) :
                   \/ k * period < outage_start * 60
                   \/ k * period >= (outage_start + outage_minutes) * 60}
    IN  [t \in {t0 + Seconds(k * period) : k \in kept} |-> {"temp"}]

\* The sampled stores tried: a period of 5 or 10 seconds, an outage of 10 or
\* 20 minutes that starts at a multiple of 5 minutes.
SampledStores ==
    {SampledStore(period, 3600, 5 * m, len) :
       period \in {5, 10}, m \in 0..8, len \in {10, 20}}

\* get_frequency is called over one hour of a sampled store, with a channel
\* map that names the field temp.
InitSampled ==
    /\ can_id_fields = <<[can_id |-> "c1", fields |-> <<"temp">>]>>
    /\ batch_size = DefaultBatchSize
    /\ start_local = StartLocalSeconds
    /\ end_local = StartLocalSeconds + 3600
    /\ columns = {"temp"}
    /\ store \in SampledStores
    /\ frequency_dict = InitFrequency(can_id_fields)
    /\ current_time = ToUTC(start_local)
    /\ final_end_time = ToUTC(end_local)
    /\ total_gap_duration = 0
    /\ all_data = <<>>
    /\ data = <<>>
    /\ queries = <<>>
    /\ outcome = "running"
    /\ error = "none"
    /\ returned = <<>>
    /\ RunQueriesIdle
    /\ LoadIdle
    /\ MainIdle
    /\ GuiIdle
    /\ MetaIdle

SpecSampled == InitSampled /\ [][Next]_vars

\* ------------------------------------------------- the store of run_queries

\* The zones pytz knows, of those tried.
KnownTimezones == {"Asia/Kolkata", "UTC"}

\* The zone names tried as params['timezone'].
TimezoneNames == KnownTimezones \cup {"Mars/Olympus"}

UtcOffsetSeconds(tz) == IF tz = "Asia/Kolkata" THEN KolkataOffsetSeconds ELSE 0

\* pd.Timestamp(...).tz_localize(tz): an instant and the offset it is shown in.
Localize(local_seconds, tz) ==
    [instant |-> Seconds(local_seconds - UtcOffsetSeconds(tz)),
     offset |-> UtcOffsetSeconds(tz)]

\* ts.astimezone(pytz.UTC): the same instant, shown in UTC.
AsUTC(ts) == [instant |-> ts.instant, offset |-> 0]

\* ts.isoformat(): the wall-clock reading followed by the offset as its one
\* zone designator.
IsoFormat(ts) ==
    [wall |-> ts.instant + Seconds(ts.offset),
     zone |-> <<IF ts.offset = 0 THEN "+00:00" ELSE "+05:30">>]

\* f"{...isoformat()}Z": one more designator at the end of the text.
AppendZ(text) == [wall |-> text.wall, zone |-> Append(text.zone, "Z")]

\* The time literal of a COUNT query of each script.
TimeLiteral(v, ts) == IF v = "1.0.2_2" THEN AppendZ(IsoFormat(ts)) ELSE IsoFormat(ts)

\* The store reads a time literal that carries exactly one zone designator.
WellFormed(text) == Len(text.zone) = 1

\* The instant a well-formed time literal names.
InstantOf(text) ==
    text.wall - Seconds(CASE text.zone[1] = "+05:30" -> KolkataOffsetSeconds
                          [] OTHER -> 0)

\* The measurements tried, each with the field keys SHOW FIELD KEYS lists and
\* its rows of the vehicle: timestamp -> the fields holding a value.
MeasurementChoices(name) ==
    LET t0 == ToUTC(StartLocalSeconds)
    IN  { [name |-> name, fields |-> <<>>, rows |-> <<>>],
          [name |-> name, fields |-> <<"f1">>, rows |-> <<>>],
          [name |-> name, fields |-> <<"f1">>,
           rows |-> (t0 + 1 :> {"f1"}) @@ (t0 + WindowSize :> {"f1"})],
          [name |-> name, fields |-> <<"f1", "f2">>,
           rows |-> (t0 :> {"f1", "f2"}) @@ (t0 + 1 :> {"f1"})
                    @@ (t0 + 2 * WindowSize :> {"f2"})] }

\* The store contents tried: no measurement, m1, or m1 and m2.
Databases ==
    {<<>>} \cup {<<a>> : a \in MeasurementChoices("m1")}
           \cup {<<a, b>> : a \in MeasurementChoices("m1"), b \in MeasurementChoices("m2")}

\* The rows of measurement m in the store.
RowsOf(m) ==
    IF \E i \in DOMAIN db : db[i].name = m
    THEN db[CHOOSE i \in DOMAIN db : db[i].name = m].rows
    ELSE <<>>

\* A query as the store receives it.
ShowMeasurements == [kind |-> "SHOW MEASUREMENTS", measurement |-> "", field |-> "", filter |-> <<>>]
ShowFieldKeys(m) == [kind |-> "SHOW FIELD KEYS", measurement |-> m, field |-> "", filter |-> <<>>]
MinTime(m, lo, hi) == [kind |-> "MIN", measurement |-> m, field |-> "time", filter |-> <<lo, hi>>]
MaxTime(m, lo, hi) == [kind |-> "MAX", measurement |-> m, field |-> "time", filter |-> <<lo, hi>>]
CountQuery(m, f, lo, hi) == [kind |-> "COUNT", measurement |-> m, field |-> f, filter |-> <<lo, hi>>]

\* The store rejects a query whose time filter it cannot read.
Rejected(q) == \E i \in DOMAIN q.filter : ~WellFormed(q.filter[i])

\* The timestamps of the rows a time-filtered query of measurement m selects
\* that hold a value in field f ("time": any row).
Selected(q) ==
    LET rows == RowsOf(q.measurement)
    IN  {t \in DOMAIN rows :
           /\ InstantOf(q.filter[1]) <= t
           /\ t < InstantOf(q.filter[2])
           /\ (q.field = "time" \/ q.field \in rows[t])}

\* --------------------------------------------------- the channel map file

\* A line of the file: whether its first character is white space, and the
\* tab-separated parts of the stripped line (none: a blank line).
Line(indented, parts) == [indented |-> indented, parts |-> parts]

\* The files tried: empty; one block; two blocks, the first with an indented
\* field line; a measurement line without a field.
CsvFiles ==
    { <<>>,
      <<Line(FALSE, <<"m1", "f1">>)>>,
      <<Line(FALSE, <<"m1", "f1">>), Line(TRUE, <<"f2">>), Line(FALSE, <<>>),
        Line(FALSE, <<"m2", "f1">>)>>,
      <<Line(FALSE, <<"m1">>)>> }

\* line.strip(): the parts with the tabs between them.
RECURSIVE JoinTabs(_)
JoinTabs(parts) ==
    IF parts = <<>> THEN ""
    ELSE IF Len(parts) = 1 THEN parts[1]
    ELSE parts[1] \o "\t" \o JoinTabs(Tail(parts))

StrippedLine(line) == JoinTabs(line.parts)

\* A slip: a known key keeps its fields, the value going after them.
DictSetExtending(dict, key, value) ==
    IF \E i \in DOMAIN dict : dict[i].measurement = key
    THEN [i \in DOMAIN dict |->
            IF dict[i].measurement = key
            THEN [measurement |-> key, fields |-> dict[i].fields \o value] ELSE dict[i]]
    ELSE Append(dict, [measurement |-> key, fields |-> value])

\* measurements_fields[key] = value: a new key goes last, a known key keeps
\* its place.
DictSet(dict, key, value) ==
    IF \E i \in DOMAIN dict : dict[i].measurement = key
    THEN [i \in DOMAIN dict |->
            IF dict[i].measurement = key
            THEN [measurement |-> key, fields |-> value] ELSE dict[i]]
    ELSE Append(dict, [measurement |-> key, fields |-> value])

\* A slip: the field put in front of the list.
DictPrepend(dict, key, field) ==
    [i \in DOMAIN dict |->
        IF dict[i].measurement = key
        THEN [measurement |-> key, fields |-> <<field>> \o dict[i].fields]
        ELSE dict[i]]

\* measurements_fields[key].append(field)
DictAppend(dict, key, field) ==
    [i \in DOMAIN dict |->
        IF dict[i].measurement = key
        THEN [measurement |-> key, fields |-> Append(dict[i].fields, field)]
        ELSE dict[i]]

\* One pass of the for loop over the lines; current "" is None.
ParseLine(st, line) ==
    IF line.parts = <<>>
    THEN [dict |-> st.dict, current |-> ""]
    ELSE IF line.indented /\ st.current # ""
    THEN [dict |-> DictAppend(st.dict, st.current, StrippedLine(line)),
          current |-> st.current]
    ELSE IF Len(line.parts) >= 2
    THEN [dict |-> DictSet(st.dict, line.parts[1], <<line.parts[2]>>),
          current |-> line.parts[1]]
    ELSE [dict |-> DictSet(st.dict, line.parts[1], <<>>), current |-> line.parts[1]]

RECURSIVE ParseLines(_, _)
ParseLines(st, lines) ==
    IF lines = <<>> THEN st ELSE ParseLines(ParseLine(st, Head(lines)), Tail(lines))

\* load_measurements_fields of a readable file.
LoadMeasurementsFields(lines) == ParseLines([dict |-> <<>>, current |-> ""], lines).dict

\* The lines a file is made of: a blank line, block headers with and without
\* a first field, indented field lines with and without a tab inside.
LineKinds ==
    { Line(FALSE, <<>>),
      Line(FALSE, <<"m1", "f1">>), Line(FALSE, <<"m2", "f1">>), Line(FALSE, <<"m1">>),
      Line(TRUE, <<"f2">>), Line(TRUE, <<"f3">>), Line(TRUE, <<"f2", "x">>) }

\* Every file of at most MaxLines lines.
Files == UNION {[1..n -> LineKinds] : n \in 0..MaxLines}

\* One pass of the for loop of load_measurements_fields over the next line.
ReadLine ==
    /\ line_no < Len(file_lines)
    /\ LET st == ParseLine([dict |-> parsed, current |-> current_measurement],
                           file_lines[line_no + 1])
       IN  /\ parsed' = st.dict
           /\ current_measurement' = st.current
    /\ line_no' = line_no + 1
    /\ UNCHANGED file_lines
    /\ UNCHANGED <<gfVars, rqVars, mainVars, guiVars, metaVars>>

\* load_measurements_fields is called on a readable file.
InitLoad ==
    /\ file_lines \in Files
    /\ line_no = 0
    /\ current_measurement = ""
    /\ parsed = <<>>
    /\ GetFrequencyIdle
    /\ RunQueriesIdle
    /\ MainIdle
    /\ GuiIdle
    /\ MetaIdle
    /\ start_local = StartLocalSeconds
    /\ end_local = StartLocalSeconds

NextLoad == ReadLine

SpecLoad == InitLoad /\ [][NextLoad]_vars

\* ------------------------------------------------------------ run_queries

\* The (measurement, field) pairs in the order the counting loops visit them.
RECURSIVE FieldPairs(_)
FieldPairs(mf) ==
    IF mf = <<>> THEN <<>>
    ELSE [i \in DOMAIN Head(mf).fields |-> <<Head(mf).measurement, Head(mf).fields[i]>>]
         \o FieldPairs(Tail(mf))

\* A slip: a return path that leaves the client open.
CloseClientForgotten == UNCHANGED <<client, closes>>

\* client.close() where the script calls it: 1.0.7 never closes its client.
CloseClient ==
    IF version = "1.0.2_2" /\ client = "open"
    THEN client' = "closed" /\ closes' = closes + 1
    ELSE UNCHANGED <<client, closes>>

\* The queries of a sequence that reach the store when the k-th raises
\* (k = 0: none raises).
SentUpTo(qs, k) == IF k = 0 THEN qs ELSE SubSeq(qs, 1, k)

\* Where a sequence of queries may fail: anywhere or nowhere when the store
\* answers, at the first query when it does not.
FailPoints(qs) ==
    IF qs = <<>> THEN {0}
    ELSE IF reachable THEN 0..Len(qs) ELSE {1}

\* InfluxDBClient(host=..., port=int(params['port']), ...): the constructor
\* opens no connection; only int() can raise.
Connect ==
    /\ pc = "connect"
    /\ IF port_ok
       THEN /\ client' = "open"
            /\ reported' = Append(reported, "Connected to InfluxDB.")
            /\ pc' = "timestamps"
       ELSE /\ reported' = Append(reported, "Failed to connect to InfluxDB")
            /\ pc' = "done"
            /\ UNCHANGED client
    /\ UNCHANGED <<version, port_ok, timezone, datetime_ok, use_csv, csv_file,
                   reachable, db, closes, sent, start_dt, end_dt, total_hours,
                   measurements_fields, results_list, files_written,
                   start_local, end_local>>
    /\ UNCHANGED gfOnly
    /\ UNCHANGED lfVars
    /\ UNCHANGED mainVars
    /\ UNCHANGED <<guiVars, metaVars>>

\* A slip: the zone and the strings taken as given.
TimestampsUnchecked == TRUE

\* pytz.timezone(...) knows the zone and pd.Timestamp(...).tz_localize(...)
\* accepts the date and time: the try block raises nothing.
TimestampsOk == timezone \in KnownTimezones /\ datetime_ok

\* The timestamp a script keeps for a wall-clock input.
MakeTimestamp(local_seconds) ==
    IF version = "1.0.2_2"
    THEN AsUTC(Localize(local_seconds, timezone))
    ELSE Localize(local_seconds, timezone)

\* The try block that creates the timezone-aware timestamps.
Timestamps ==
    /\ pc = "timestamps"
    /\ IF TimestampsOk
       THEN /\ start_dt' = <<MakeTimestamp(start_local)>>
            /\ end_dt' = <<MakeTimestamp(end_local)>>
            /\ pc' = IF version = "1.0.2_2" THEN "hours" ELSE "load"
            /\ UNCHANGED <<reported, client, closes>>
       ELSE /\ reported' = Append(reported, "Error creating timestamps")
            /\ CloseClient
            /\ pc' = "done"
            /\ UNCHANGED <<start_dt, end_dt>>
    /\ UNCHANGED <<version, port_ok, timezone, datetime_ok, use_csv, csv_file,
                   reachable, db, sent, total_hours, measurements_fields,
                   results_list, files_written, start_local, end_local>>
    /\ UNCHANGED gfOnly
    /\ UNCHANGED lfVars
    /\ UNCHANGED mainVars
    /\ UNCHANGED <<guiVars, metaVars>>

\* The least and the greatest element of a non-empty set of instants.
Least(S) == CHOOSE x \in S : \A y \in S : x <= y
Greatest(S) == CHOOSE x \in S : \A y \in S : x >= y

\* The queries calculate_data_hours sends when none raises: the measurements,
\* then MIN(time) and MAX(time) of each in the range.
RECURSIVE MinMaxQueries(_, _, _)
MinMaxQueries(ms, lo, hi) ==
    IF ms = <<>> THEN <<>>
    ELSE <<MinTime(Head(ms).name, lo, hi), MaxTime(Head(ms).name, lo, hi)>>
         \o MinMaxQueries(Tail(ms), lo, hi)

HoursQueries ==
    LET lo == IsoFormat(AsUTC(Localize(start_local, timezone)))
        hi == IsoFormat(AsUTC(Localize(end_local, timezone)))
    IN  <<ShowMeasurements>> \o MinMaxQueries(db, lo, hi)

\* list(result.get_points()) of a MIN(time) or MAX(time) query the store
\* answers: one point, or none when no row is selected.
MinAnswer(q) == IF Selected(q) = {} THEN <<>> ELSE <<[min_time |-> Least(Selected(q))]>>
MaxAnswer(q) == IF Selected(q) = {} THEN <<>> ELSE <<[max_time |-> Greatest(Selected(q))]>>

\* A slip: the earliest time taken from the last measurement that has one.
UpdateEarliestLast(earliest_time, min_points) ==
    IF min_points # <<>> THEN <<min_points[1].min_time>> ELSE earliest_time

\* if min_points and ...: if earliest_time is None or min_time < earliest_time
\* (<<>> is None).
UpdateEarliest(earliest_time, min_points) ==
    IF min_points # <<>>
       /\ (earliest_time = <<>> \/ min_points[1].min_time < earliest_time[1])
    THEN <<min_points[1].min_time>> ELSE earliest_time

\* if max_points and ...: if latest_time is None or max_time > latest_time
UpdateLatest(latest_time, max_points) ==
    IF max_points # <<>>
       /\ (latest_time = <<>> \/ max_points[1].max_time > latest_time[1])
    THEN <<max_points[1].max_time>> ELSE latest_time

\* The for loop over the measurements: qs holds the MIN and the MAX query of
\* each, in turn.
RECURSIVE ScanTimes(_, _)
ScanTimes(qs, found) ==
    IF qs = <<>> THEN found
    ELSE ScanTimes(Tail(Tail(qs)),
                   [earliest_time |-> UpdateEarliest(found.earliest_time, MinAnswer(qs[1])),
                    latest_time |-> UpdateLatest(found.latest_time, MaxAnswer(qs[2]))])

\* latest_time - earliest_time when both were found, and 0 when not or when
\* the difference is negative.
DataDuration(qs) ==
    LET found == ScanTimes(Tail(qs), [earliest_time |-> <<>>, latest_time |-> <<>>])
    IN  IF found.earliest_time # <<>> /\ found.latest_time # <<>>
        THEN IF found.latest_time[1] - found.earliest_time[1] < 0 THEN 0
             ELSE found.latest_time[1] - found.earliest_time[1]
        ELSE 0

\* calculate_data_hours, called by 1.0.2_2 before the channel map is loaded:
\* it checks the zone and the strings itself, and turns every exception of a
\* query into 0.0.
DataHours ==
    /\ pc = "hours"
    /\ IF timezone \notin KnownTimezones
       THEN /\ reported' = Append(reported, "Unknown timezone")
            /\ UNCHANGED <<sent, total_hours>>
       ELSE IF ~datetime_ok
       THEN /\ reported' = Append(reported, "Error creating timestamps")
            /\ UNCHANGED <<sent, total_hours>>
       ELSE \E k \in FailPoints(HoursQueries) :
            /\ sent' = sent \o SentUpTo(HoursQueries, k)
            /\ total_hours' = IF k = 0 THEN DataDuration(HoursQueries) ELSE 0
            /\ reported' = IF k = 0 THEN reported
                           ELSE Append(reported, "Error calculating data hours")
    /\ pc' = "load"
    /\ UNCHANGED <<version, port_ok, timezone, datetime_ok, use_csv, csv_file,
                   reachable, db, client, closes, start_dt, end_dt,
                   measurements_fields, results_list, files_written,
                   start_local, end_local>>
    /\ UNCHANGED gfOnly
    /\ UNCHANGED lfVars
    /\ UNCHANGED mainVars
    /\ UNCHANGED <<guiVars, metaVars>>

\* The queries fetch_measurements_and_fields sends when none raises.
FetchQueries == <<ShowMeasurements>> \o [i \in DOMAIN db |-> ShowFieldKeys(db[i].name)]

\* fetch_measurements_and_fields, no query raising.
FetchMeasurementsAndFields ==
    [i \in DOMAIN db |-> [measurement |-> db[i].name, fields |-> db[i].fields]]

\* The channel map is loaded from the file or fetched from the store; every
\* failure is reported and ends the run.
LoadMap ==
    /\ pc = "load"
    /\ IF use_csv
       THEN /\ UNCHANGED sent
            /\ IF csv_file.status = "missing"
               THEN /\ reported' = Append(reported, "CSV file not found")
                    /\ CloseClient
                    /\ pc' = "done"
                    /\ UNCHANGED measurements_fields
               ELSE IF csv_file.status = "unreadable"
               THEN /\ reported' = Append(reported, "Error loading CSV")
                    /\ CloseClient
                    /\ pc' = "done"
                    /\ UNCHANGED measurements_fields
               ELSE /\ measurements_fields' = LoadMeasurementsFields(csv_file.lines)
                    /\ reported' = Append(reported, "Loaded measurements from CSV file.")
                    /\ pc' = "count"
                    /\ UNCHANGED <<client, closes>>
       ELSE \E k \in FailPoints(FetchQueries) :
            /\ sent' = sent \o SentUpTo(FetchQueries, k)
            /\ IF k = 0
               THEN /\ measurements_fields' = FetchMeasurementsAndFields
                    /\ reported' = Append(reported, "Fetched measurements and fields from InfluxDB.")
                    /\ pc' = "count"
                    /\ UNCHANGED <<client, closes>>
               ELSE /\ reported' = Append(reported, "Error fetching measurements/fields")
                    /\ CloseClient
                    /\ pc' = "done"
                    /\ UNCHANGED measurements_fields
    /\ UNCHANGED <<version, port_ok, timezone, datetime_ok, use_csv, csv_file,
                   reachable, db, start_dt, end_dt, total_hours, results_list,
                   files_written, start_local, end_local>>
    /\ UNCHANGED gfOnly
    /\ UNCHANGED lfVars
    /\ UNCHANGED mainVars
    /\ UNCHANGED <<guiVars, metaVars>>

\* list(result.get_points()) of a COUNT query the store answers: one point
\* holding the count, or none when no row is selected.
CountAnswer(q) ==
    LET n == Cardinality(Selected(q))
    IN  IF n = 0 THEN <<>> ELSE <<[count |-> n]>>

\* get_count_for_field: 0 when the query raises or no point comes back, else
\* the count of the first point.
CountValue(q, raises) ==
    IF raises THEN 0
    ELSE IF CountAnswer(q) # <<>> THEN CountAnswer(q)[1].count ELSE 0

\* A slip: the exception of a COUNT query ends the counting.
AfterCountErrorAborts == "done"

\* What get_count_for_field does with a query that raises: it logs the error
\* and the run goes on with 0.
AfterCountError == "count"

\* A slip: the key without the count_ prefix of the field.
ResultKeyPlain(measurement, field) == measurement \o "." \o field

\* f"{measurement}.count_{field}"
ResultKey(measurement, field) == measurement \o ".count_" \o field

\* One pass of the inner counting loop: one COUNT query, one result row.
CountField ==
    /\ pc = "count"
    /\ Len(results_list) < Len(FieldPairs(measurements_fields))
    /\ LET p == FieldPairs(measurements_fields)[Len(results_list) + 1]
           q == CountQuery(p[1], p[2], TimeLiteral(version, start_dt[1]),
                           TimeLiteral(version, end_dt[1]))
       IN  \E fails \in BOOLEAN :
           LET raises == ~reachable \/ fails \/ Rejected(q)
           IN  /\ sent' = Append(sent, q)
               /\ reported' = IF raises THEN Append(reported, "Error executing query")
                              ELSE reported
               /\ results_list' = Append(results_list,
                                    [Measurement_Field |-> ResultKey(p[1], p[2]),
                                     Count |-> CountValue(q, raises)])
               /\ pc' = IF raises THEN AfterCountError ELSE "count"
    /\ UNCHANGED <<version, port_ok, timezone, datetime_ok, use_csv, csv_file,
                   reachable, db, client, closes, start_dt, end_dt, total_hours,
                   measurements_fields, files_written, start_local, end_local>>
    /\ UNCHANGED gfOnly
    /\ UNCHANGED lfVars
    /\ UNCHANGED mainVars
    /\ UNCHANGED <<guiVars, metaVars>>

\* A slip: the result file written whether or not there are rows.
HaveResultsAlways == TRUE

\* if results_list:
HaveResults == results_list # <<>>

\* After the loops: the result file is written when there are rows (to_csv
\* may fail), the client is closed, run_queries returns.
Save ==
    /\ pc = "count"
    /\ Len(results_list) = Len(FieldPairs(measurements_fields))
    /\ IF HaveResults
       THEN \E written \in BOOLEAN :
            IF written
            THEN /\ files_written' = Append(files_written, results_list)
                 /\ reported' = Append(reported, "Data saved")
            ELSE /\ reported' = Append(reported, "Error saving CSV file")
                 /\ UNCHANGED files_written
       ELSE /\ reported' = Append(reported, "No data to save.")
            /\ UNCHANGED files_written
    /\ CloseClient
    /\ pc' = "done"
    /\ UNCHANGED <<version, port_ok, timezone, datetime_ok, use_csv, csv_file,
                   reachable, db, sent, start_dt, end_dt, total_hours,
                   measurements_fields, results_list, start_local, end_local>>
    /\ UNCHANGED gfOnly
    /\ UNCHANGED lfVars
    /\ UNCHANGED mainVars
    /\ UNCHANGED <<guiVars, metaVars>>

\* The channel map files tried with use_csv; without, the file is not looked at.
CsvFileChoices(csv) ==
    IF csv
    THEN {[status |-> "missing", lines |-> <<>>], [status |-> "unreadable", lines |-> <<>>]}
         \cup {[status |-> "ok", lines |-> l] : l \in CsvFiles}
    ELSE {[status |-> "missing", lines |-> <<>>]}

\* run_queries is called: every params, file and store content tried.
InitRunQueries ==
    /\ version \in {"1.0.2_2", "1.0.7"}
    /\ port_ok \in BOOLEAN
    /\ timezone \in TimezoneNames
    /\ datetime_ok \in BOOLEAN
    /\ use_csv \in BOOLEAN
    /\ csv_file \in CsvFileChoices(use_csv)
    /\ reachable \in BOOLEAN
    /\ db \in Databases
    /\ start_local = StartLocalSeconds
    /\ end_local = StartLocalSeconds + WindowMinutes * 60
    /\ pc = "connect"
    /\ client = "none"
    /\ closes = 0
    /\ sent = <<>>
    /\ reported = <<>>
    /\ start_dt = <<>>
    /\ end_dt = <<>>
    /\ total_hours = 0
    /\ measurements_fields = <<>>
    /\ results_list = <<>>
    /\ files_written = <<>>
    /\ GetFrequencyIdle
    /\ LoadIdle
    /\ MainIdle
    /\ GuiIdle
    /\ MetaIdle

NextRunQueries == Connect \/ Timestamps \/ DataHours \/ LoadMap \/ CountField \/ Save

SpecRunQueries == InitRunQueries /\ [][NextRunQueries]_vars

\* calculate_data_hours called on its own, with an open client and any
\* params and store content.
InitDataHours ==
    /\ version = "1.0.2_2"
    /\ port_ok = TRUE
    /\ timezone \in TimezoneNames
    /\ datetime_ok \in BOOLEAN
    /\ use_csv = FALSE
    /\ csv_file = [status |-> "missing", lines |-> <<>>]
    /\ reachable \in BOOLEAN
    /\ db \in Databases
    /\ start_local = StartLocalSeconds
    /\ end_local = StartLocalSeconds + WindowMinutes * 60
    /\ pc = "hours"
    /\ client = "open"
    /\ closes = 0
    /\ sent = <<>>
    /\ reported = <<>>
    /\ start_dt = <<>>
    /\ end_dt = <<>>
    /\ total_hours = 0
    /\ measurements_fields = <<>>
    /\ results_list = <<>>
    /\ files_written = <<>>
    /\ GetFrequencyIdle
    /\ LoadIdle
    /\ MainIdle
    /\ GuiIdle
    /\ MetaIdle

NextDataHours == DataHours

SpecDataHours == InitDataHours /\ [][NextDataHours]_vars

\* ------------------------------------------------- the query form of the GUI

\* A slip: the Run button left as it is by a click.
ButtonLeftNormal == "normal"

\* self.run_button.config(state=tk.DISABLED)
ButtonAfterClick == "disabled"

\* on_run_query: Tk delivers the click only while the button is enabled. The
\* handler clears the output, disables the button, reads the params off the
\* form and starts the worker thread, whose run_queries begins with fresh
\* locals.
OnRunQuery ==
    /\ run_button = "normal"
    /\ clicks < MaxClicks
    /\ clicks' = clicks + 1
    /\ reported' = <<>>
    /\ run_button' = ButtonAfterClick
    /\ workers' = workers + 1
    /\ pc' = "connect"
    /\ client' = "none"
    /\ closes' = 0
    /\ start_dt' = <<>>
    /\ end_dt' = <<>>
    /\ total_hours' = 0
    /\ measurements_fields' = <<>>
    /\ results_list' = <<>>
    /\ UNCHANGED <<version, port_ok, timezone, datetime_ok, use_csv, csv_file,
                   reachable, db, sent, files_written, start_local, end_local>>
    /\ UNCHANGED gfOnly
    /\ UNCHANGED lfVars
    /\ UNCHANGED mainVars
    /\ UNCHANGED metaVars

\* run_query_thread when run_queries has returned, early or at its end: the
\* finally clause enables the button and the thread ends.
WorkerReturns ==
    /\ workers > 0
    /\ pc = "done"
    /\ pc' = "idle"
    /\ run_button' = "normal"
    /\ workers' = workers - 1
    /\ UNCHANGED <<version, port_ok, timezone, datetime_ok, use_csv, csv_file,
                   reachable, db, client, closes, sent, reported, start_dt, end_dt,
                   total_hours, measurements_fields, results_list, files_written,
                   start_local, end_local, clicks>>
    /\ UNCHANGED gfOnly
    /\ UNCHANGED lfVars
    /\ UNCHANGED mainVars
    /\ UNCHANGED metaVars

\* run_query_thread when an exception leaves run_queries (its output
\* function, called from the worker thread, may raise anywhere): the except
\* clause reports it, the finally clause enables the button, the thread ends.
WorkerRaises ==
    /\ workers > 0
    /\ pc \in {"connect", "timestamps", "hours", "load", "count"}
    /\ pc' = "idle"
    /\ reported' = Append(reported, "Error during query execution")
    /\ run_button' = "normal"
    /\ workers' = workers - 1
    /\ UNCHANGED <<version, port_ok, timezone, datetime_ok, use_csv, csv_file,
                   reachable, db, client, closes, sent, start_dt, end_dt,
                   total_hours, measurements_fields, results_list, files_written,
                   start_local, end_local, clicks>>
    /\ UNCHANGED gfOnly
    /\ UNCHANGED lfVars
    /\ UNCHANGED mainVars
    /\ UNCHANGED metaVars

\* The form is shown: its fields hold the params of the run, nothing has
\* been clicked.
InitGui ==
    /\ version \in {"1.0.2_2", "1.0.7"}
    /\ port_ok \in BOOLEAN
    /\ timezone \in {"Asia/Kolkata", "Mars/Olympus"}
    /\ datetime_ok = TRUE
    /\ use_csv \in BOOLEAN
    /\ csv_file \in CsvFileChoices(use_csv)
    /\ reachable \in BOOLEAN
    /\ db \in {d \in Databases : Len(d) = 1 /\ \A i \in DOMAIN d : Len(d[i].fields) = 1}
    /\ start_local = StartLocalSeconds
    /\ end_local = StartLocalSeconds + WindowMinutes * 60
    /\ pc = "idle"
    /\ client = "none"
    /\ closes = 0
    /\ sent = <<>>
    /\ reported = <<>>
    /\ start_dt = <<>>
    /\ end_dt = <<>>
    /\ total_hours = 0
    /\ measurements_fields = <<>>
    /\ results_list = <<>>
    /\ files_written = <<>>
    /\ run_button = "normal"
    /\ workers = 0
    /\ clicks = 0
    /\ GetFrequencyIdle
    /\ LoadIdle
    /\ MainIdle
    /\ MetaIdle

\* What the worker thread does.
WorkerStep == NextRunQueries \/ WorkerReturns \/ WorkerRaises

NextGui == OnRunQuery \/ WorkerStep

\* The worker thread, once started, is scheduled until it ends; the user
\* may click or not.
SpecGui == InitGui /\ [][NextGui]_vars /\ WF_vars(WorkerStep)

\* --------------------------------------------- the metadata form of 1.0.7

\* metadata_fields
MetadataFields ==
    << "Uploaded By", "Test Data", "Test Time", "Test Conducted", "Test Device",
       "Boson App Version", "VT-Box Version", "VCU Hardware Version",
       "VCU Software Version", "MC Front Firmware Version", "MC Rear Firmware Version",
       "MC Front Profile Checksum", "MC Rear Profile Checksum", "BMS Firmware Version",
       "BMS Profile Checksum" >>

\* metadata_fields[:-2]
TemplateFields == SubSeq(MetadataFields, 1, Len(MetadataFields) - 2)

\* The texts typed into the comments box: none, a word, a word after a blank.
CommentTexts == {"", "ok", " ok"}

\* comments_text.get("1.0", tk.END).strip(), on the texts tried.
Strip(text) == IF text = " ok" THEN "ok" ELSE text

\* The rows save_metadata_to_csv hands to to_csv: the template fields, then
\* the comments.
TemplateRows ==
    [i \in DOMAIN TemplateFields |->
        [name |-> TemplateFields[i], value |-> metadata_entries[TemplateFields[i]]]]
    \o <<[name |-> "Comments", value |-> Strip(comments_text)]>>

\* pd.read_csv of a cell: an empty cell is read as NaN, which the widgets
\* show as the text nan; any other text tried is read as it was written.
ReadCell(value) == IF value = "" THEN "nan" ELSE value

\* metadata_df.set_index("Meta Data")["Meta Value"].to_dict().get(field, "")
DictGet(rows, field) ==
    IF \E i \in DOMAIN rows : rows[i].name = field
    THEN ReadCell(rows[CHOOSE i \in DOMAIN rows : rows[i].name = field].value)
    ELSE ""

\* save_metadata_to_csv: the template file is written, unless to_csv fails
\* and the error is shown.
SaveMetadataToCsv ==
    /\ \E written \in BOOLEAN :
         IF written
         THEN /\ template_file' = <<TemplateRows>>
              /\ saved_form' = <<[entries |-> metadata_entries, comments |-> comments_text]>>
         ELSE UNCHANGED <<template_file, saved_form>>
    /\ last_handler' = "save"
    /\ UNCHANGED <<metadata_entries, comments_text>>
    /\ UNCHANGED <<gfVars, rqVars, lfVars, mainVars, guiVars>>

\* load_metadata_from_csv: without a template file an error is shown; else
\* every entry and the comments box are filled from the file.
LoadMetadataFromCsv ==
    /\ IF template_file = <<>>
       THEN UNCHANGED <<metadata_entries, comments_text>>
       ELSE /\ metadata_entries' =
                 [f \in DOMAIN metadata_entries |-> DictGet(template_file[1], f)]
            /\ comments_text' = DictGet(template_file[1], "Comments")
    /\ last_handler' = "load"
    /\ UNCHANGED <<template_file, saved_form>>
    /\ UNCHANGED <<gfVars, rqVars, lfVars, mainVars, guiVars>>

\* reset_form: every entry and the comments box are emptied.
ResetForm ==
    /\ metadata_entries' = [f \in DOMAIN metadata_entries |-> ""]
    /\ comments_text' = ""
    /\ last_handler' = "reset"
    /\ UNCHANGED <<template_file, saved_form>>
    /\ UNCHANGED <<gfVars, rqVars, lfVars, mainVars, guiVars>>

\* The form as the user has filled it: at most MaxFilled entries hold a text,
\* the comments box any of the texts tried; no template file yet.
InitMetadata ==
    /\ metadata_entries \in {e \in [Range(MetadataFields) -> {"", "v1"}] :
                                Cardinality({f \in DOMAIN e : e[f] # ""}) <= MaxFilled}
    /\ comments_text \in CommentTexts
    /\ template_file = <<>>
    /\ saved_form = <<>>
    /\ last_handler = "none"
    /\ GetFrequencyIdle
    /\ RunQueriesIdle
    /\ LoadIdle
    /\ MainIdle
    /\ GuiIdle
    /\ start_local = StartLocalSeconds
    /\ end_local = StartLocalSeconds

NextMetadata == SaveMetadataToCsv \/ LoadMetadataFromCsv \/ ResetForm

SpecMetadata == InitMetadata /\ [][NextMetadata]_vars

\* ------------------------------------------------- both modes side by side

\* get_frequency and run_queries each called once over the same range of one
\* window, neither touching the other's state: the channel map of each is
\* empty or names one field, the stores hold any rows or none.
InitBothModes ==
    /\ can_id_fields \in {m \in ChannelMaps :
                            Len(m) <= 1 /\ \A i \in DOMAIN m : Len(m[i].fields) <= 1}
    /\ batch_size = DefaultBatchSize
    /\ start_local = StartLocalSeconds
    /\ end_local = StartLocalSeconds + WindowMinutes * 60
    /\ columns = {"f1"}
    /\ store \in Stores(columns)
    /\ frequency_dict = InitFrequency(can_id_fields)
    /\ current_time = ToUTC(start_local)
    /\ final_end_time = ToUTC(end_local)
    /\ total_gap_duration = 0
    /\ all_data = <<>>
    /\ data = <<>>
    /\ queries = <<>>
    /\ outcome = "running"
    /\ error = "none"
    /\ returned = <<>>
    /\ version \in {"1.0.2_2", "1.0.7"}
    /\ port_ok = TRUE
    /\ timezone = "Asia/Kolkata"
    /\ datetime_ok = TRUE
    /\ use_csv \in BOOLEAN
    /\ csv_file \in CsvFileChoices(use_csv)
    /\ reachable = TRUE
    /\ db \in {d \in Databases : Len(d) <= 1 /\ \A i \in DOMAIN d : Len(d[i].fields) <= 1}
    /\ pc = "connect"
    /\ client = "none"
    /\ closes = 0
    /\ sent = <<>>
    /\ reported = <<>>
    /\ start_dt = <<>>
    /\ end_dt = <<>>
    /\ total_hours = 0
    /\ measurements_fields = <<>>
    /\ results_list = <<>>
    /\ files_written = <<>>
    /\ LoadIdle
    /\ MainIdle
    /\ GuiIdle
    /\ MetaIdle

NextBothModes == Next \/ NextRunQueries

SpecBothModes == InitBothModes /\ [][NextBothModes]_vars

\* =================================================================== claims

\* What the claims speak of, written from the inputs alone.
RangeStart == ToUTC(start_local)
RangeEnd == ToUTC(end_local)

\* The loop has ended without a query raising.
LoopDone == ~(current_time < final_end_time) /\ error # "QueryError"

\* No window held more rows than the row cap.
NoWindowTruncated ==
    \A i \in DOMAIN queries :
        Cardinality({t \in DOMAIN store : queries[i].lo <= t /\ t < queries[i].hi})
            <= queries[i].limit

WindowLengths == [i \in DOMAIN queries |-> queries[i].hi - queries[i].lo]

\* The (can_id, field) pairs of the channel map.
MapPairs ==
    UNION {{can_id_fields[i].can_id} \X Range(can_id_fields[i].fields) :
             i \in DOMAIN can_id_fields}

\* C1: for start < end the windows queried are contiguous and non-overlapping,
\* their total duration is end - start and the last window ends at the range
\* end (it is shortened when the range is no multiple of 30 minutes).
C1_WindowsCoverRangeExactly ==
    (RangeStart < RangeEnd /\ LoopDone) =>
        /\ queries # <<>>
        /\ \A i \in 2..Len(queries) : queries[i].lo = queries[i - 1].hi
        /\ queries[Len(queries)].hi = RangeEnd
        /\ SeqSum(WindowLengths) = RangeEnd - RangeStart

\* C2: the first window starts at the range start, every later window starts
\* at the end of the one before, and a query covers [window_start, window_end):
\* no row is returned by two windows and, short of the row cap, no row between
\* the first window's start and the last window's end is left out.
C2_WindowsContiguousHalfOpen ==
    /\ queries # <<>> => queries[1].lo = RangeStart
    /\ \A i \in DOMAIN queries :
         /\ queries[i].lo < queries[i].hi
         /\ i > 1 => queries[i].lo = queries[i - 1].hi
    /\ LET frame == Flatten(all_data)
       IN  /\ \A i, j \in DOMAIN frame : frame[i].time = frame[j].time => i = j
           /\ \A i \in DOMAIN frame :
                Cardinality({k \in DOMAIN queries :
                               queries[k].lo <= frame[i].time
                               /\ frame[i].time < queries[k].hi}) = 1
           /\ (NoWindowTruncated /\ error # "QueryError" /\ queries # <<>>) =>
                \A t \in DOMAIN store :
                    (queries[1].lo <= t /\ t < queries[Len(queries)].hi)
                        => \E i \in DOMAIN frame : frame[i].time = t

\* C2 happens: two windows were queried and a row sits exactly on the boundary
\* between them.
C2_Witness ==
    /\ outcome = "returned"
    /\ Len(queries) >= 2
    /\ queries[2].lo \in DOMAIN store

\* C3: the count get_frequency returns for a field equals a single
\* COUNT(field) aggregate over the whole range [start, end); stated here for
\* the runs in which no window reached the row cap.
C3_CountsEqualWholeRangeCount ==
    (outcome = "returned" /\ NoWindowTruncated) =>
        \A p \in MapPairs :
            returned[1][p[1]][p[2]] = GetCountForField(p[2], RangeStart, RangeEnd)

\* C4: a field of the channel map that is a key of no returned row gets count
\* 0 and get_frequency returns normally, also when other fields have rows.
C4_AbsentFieldCountsZero ==
    (outcome # "running" /\ error # "QueryError") =>
        /\ outcome = "returned"
        /\ \A p \in MapPairs :
             (all_data = <<>> \/ p[2] \notin columns) => returned[1][p[1]][p[2]] = 0

\* C5: a window whose query raises is skipped, the windows after it are still
\* queried and get_frequency returns: a window failure never ends the run.
C5_WindowFailureSkipped ==
    /\ outcome = "raised" => error # "QueryError"
    /\ (outcome = "returned" /\ RangeStart < RangeEnd) =>
           queries[Len(queries)].hi >= RangeEnd

\* The gap a batch adds, from the deltas of the whole epoch seconds of its
\* consecutive timestamps: the excess of each delta over the threshold.
RECURSIVE ExcessOfWholeSeconds(_)
ExcessOfWholeSeconds(batch) ==
    IF Len(batch) < 2 THEN 0
    ELSE LET d == (batch[2].time \div TicksPerSecond) - (batch[1].time \div TicksPerSecond)
         IN  (IF d > GapThresholdSeconds THEN d - GapThresholdSeconds ELSE 0)
             + ExcessOfWholeSeconds(Tail(batch))

\* The same from the deltas of the timestamps themselves, in ticks.
RECURSIVE ExcessOfTimestamps(_)
ExcessOfTimestamps(batch) ==
    IF Len(batch) < 2 THEN 0
    ELSE LET d == batch[2].time - batch[1].time
         IN  (IF d > Seconds(GapThresholdSeconds) THEN d - Seconds(GapThresholdSeconds) ELSE 0)
             + ExcessOfTimestamps(Tail(batch))

\* A step that processed the batch of one more window.
BatchProcessed == Len(queries') = Len(queries) + 1 /\ outcome' = "running"

C7_EffectiveDuration ==
    /\ outcome = "returned" =>
           returned[2] = (RangeEnd - RangeStart) - total_gap_duration
    /\ outcome # "returned" => returned = <<>>

\* C7 happens: a run over two windows returns with gaps accumulated.
C7_Witness ==
    /\ outcome = "returned"
    /\ Len(queries) >= 2
    /\ total_gap_duration > 0
    /\ current_time # RangeStart

\* C8: when every window query returns zero rows, the table returned has
\* every channel and field of the channel map at 0 and the effective duration
\* is the full range length.
C8_NoRowsAllZero ==
    (LoopDone /\ outcome # "running" /\ all_data = <<>>) =>
        /\ outcome = "returned"
        /\ DOMAIN returned[1] = {can_id_fields[i].can_id : i \in DOMAIN can_id_fields}
        /\ \A i \in DOMAIN can_id_fields :
             /\ DOMAIN returned[1][can_id_fields[i].can_id] = Range(can_id_fields[i].fields)
             /\ \A f \in Range(can_id_fields[i].fields) :
                  returned[1][can_id_fields[i].can_id][f] = 0
        /\ returned[2] = RangeEnd - RangeStart

\* C8 happens: the store holds rows, none in a window queried, and the channel
\* map names two channels, one with a field that is a key of no row.
C8_Witness ==
    /\ outcome = "returned"
    /\ queries # <<>>
    /\ all_data = <<>>
    /\ Len(can_id_fields) = 2
    /\ store # <<>>

\* The zone name is unknown or the date and time strings cannot be parsed.
BadTimeSpec == timezone \notin {"Asia/Kolkata", "UTC"} \/ ~datetime_ok

\* C9: in run_queries, with an unknown zone name or unparseable date or time
\* strings, an error is reported, no query of any kind is sent to the store
\* and no result file is written.
C9_BadTimeSpecAborts ==
    BadTimeSpec =>
        /\ sent = <<>>
        /\ files_written = <<>>
        /\ results_list = <<>>
        /\ pc \in {"connect", "timestamps", "done"}
        /\ pc = "done" =>
             \/ "Error creating timestamps" \in Range(reported)
             \/ "Failed to connect to InfluxDB" \in Range(reported)

\* C9 happens: the client was created, the zone name was unknown, and the run
\* ended at the timestamps with a store that would have answered.
C9_Witness ==
    /\ pc = "done"
    /\ client # "none"
    /\ timezone \notin {"Asia/Kolkata", "UTC"}
    /\ "Error creating timestamps" \in Range(reported)
    /\ reachable
    /\ db # <<>>

\* C10: when the store is unreachable or rejects authentication, run_queries
\* produces no count rows and writes no result file, whether the channel map
\* comes from a file or from the store.
C10_UnreachableStoreAborts ==
    ~reachable => (results_list = <<>> /\ files_written = <<>>)

\* The COUNT queries sent so far, in the order sent.
CountQueriesSent == SelectSeq(sent, LAMBDA q : q.kind = "COUNT")

\* The (measurement, field) pairs of the first n entries of the channel map
\* run_queries holds, in map order.
RECURSIVE PairsInMapOrder(_)
PairsInMapOrder(n) ==
    IF n = 0 THEN <<>>
    ELSE PairsInMapOrder(n - 1)
         \o [j \in DOMAIN measurements_fields[n].fields |->
               <<measurements_fields[n].measurement, measurements_fields[n].fields[j]>>]

MapPairsInOrder == PairsInMapOrder(Len(measurements_fields))

\* run_queries has loaded a channel map and gone through its counting loops
\* to the end.
CountingDone ==
    /\ pc = "done"
    /\ \/ "Loaded measurements from CSV file." \in Range(reported)
       \/ "Fetched measurements and fields from InfluxDB." \in Range(reported)

C12_OneQueryOneRowPerPair ==
    /\ Len(CountQueriesSent) = Len(results_list)
    /\ Len(results_list) <= Len(MapPairsInOrder)
    /\ CountingDone => Len(results_list) = Len(MapPairsInOrder)
    /\ \A i \in DOMAIN results_list :
         /\ CountQueriesSent[i].measurement = MapPairsInOrder[i][1]
         /\ CountQueriesSent[i].field = MapPairsInOrder[i][2]
         /\ results_list[i].Measurement_Field
                = MapPairsInOrder[i][1] \o ".count_" \o MapPairsInOrder[i][2]
    /\ \A n \in DOMAIN measurements_fields :
         measurements_fields[n].fields = <<>> =>
             \A i \in DOMAIN CountQueriesSent :
                 CountQueriesSent[i].measurement # measurements_fields[n].measurement

\* C12 happens: a run ended with several rows from a channel map that also
\* names a measurement without fields.
C12_Witness ==
    /\ CountingDone
    /\ Len(results_list) >= 2
    /\ \E n \in DOMAIN measurements_fields : measurements_fields[n].fields = <<>>

\* The lines of the file that open a block: not blank, not indented.
HeaderLines ==
    {h \in DOMAIN file_lines : file_lines[h].parts # <<>> /\ ~file_lines[h].indented}

\* The lines that are not blank and indented.
FieldLines ==
    {i \in DOMAIN file_lines : file_lines[i].parts # <<>> /\ file_lines[i].indented}

\* The k-th block header, counted from the top of the file.
HeaderAt(k) ==
    CHOOSE h \in HeaderLines : Cardinality({g \in HeaderLines : g <= h}) = k

\* The indented lines of the block that header h opens: those reached from h
\* through indented lines only.
BlockFieldLines(h) ==
    {i \in FieldLines : i > h /\ \A j \in (h + 1)..i : j \in FieldLines}

\* The file follows the format: every header is name<TAB>first_field, every
\* indented line belongs to a block, no two blocks share a name.
WellFormedFile ==
    /\ \A h \in HeaderLines : Len(file_lines[h].parts) = 2
    /\ \A i \in FieldLines : i > 1 /\ file_lines[i - 1].parts # <<>>
    /\ \A g, h \in HeaderLines :
         file_lines[g].parts[1] = file_lines[h].parts[1] => g = h

\* C14: for a well-formed file load_measurements_fields returns one entry
\* per block, in file order: its key is the name on the block's unindented
\* line, its value that line's first field followed by the block's indented
\* lines in file order; no field line goes to another block's measurement.
C14_BlocksBecomeEntries ==
    (line_no = Len(file_lines) /\ WellFormedFile) =>
        /\ Len(parsed) = Cardinality(HeaderLines)
        /\ \A k \in DOMAIN parsed :
             LET h == HeaderAt(k)
             IN  /\ parsed[k].measurement = file_lines[h].parts[1]
                 /\ Len(parsed[k].fields) = 1 + Cardinality(BlockFieldLines(h))
                 /\ parsed[k].fields[1] = file_lines[h].parts[2]
                 /\ \A i \in BlockFieldLines(h) :
                      parsed[k].fields[1 + i - h] = StrippedLine(file_lines[i])

\* C14 happens: a well-formed file of two blocks, the first with an indented
\* field line, has been read to its end.
C14_Witness ==
    /\ line_no = Len(file_lines)
    /\ WellFormedFile
    /\ Len(parsed) = 2
    /\ Len(parsed[1].fields) >= 2

\* C13: with an empty channel map the run ends without error and with an
\* empty table: get_frequency, whatever rows the store holds, returns a table
\* without entries once its window queries are through, and run_queries,
\* having loaded a map without entries, sends no COUNT query, has no rows and
\* writes no result file.
C13_EmptyMapEmptyTable ==
    /\ (can_id_fields = <<>> /\ outcome # "running" /\ error # "QueryError") =>
           /\ outcome = "returned"
           /\ DOMAIN returned[1] = {}
    /\ (CountingDone /\ measurements_fields = <<>>) =>
           /\ CountQueriesSent = <<>>
           /\ results_list = <<>>
           /\ files_written = <<>>
           /\ reported[Len(reported)] = "No data to save."

\* C13 happens: get_frequency has returned for an empty map after reading
\* rows from the store, and run_queries has ended on an empty map file while
\* its store holds a measurement with rows.
C13_Witness ==
    /\ can_id_fields = <<>>
    /\ outcome = "returned"
    /\ all_data # <<>>
    /\ CountingDone
    /\ measurements_fields = <<>>
    /\ \E i \in DOMAIN db : db[i].rows # <<>>

\* C15: every time filter sent to the store is a well-formed instant in UTC:
\* the wall-clock input is converted from the given zone to UTC before it is
\* put into the query, and the literal carries exactly one zone designator.
C15_TimeFiltersUTC ==
    \A i \in DOMAIN sent :
        \A k \in DOMAIN sent[i].filter :
            LET text == sent[i].filter[k]
            IN  /\ Len(text.zone) = 1
                /\ text.zone[1] \in {"+00:00", "Z"}
                /\ text.wall \in {Seconds(start_local - UtcOffsetSeconds(timezone)),
                                  Seconds(end_local - UtcOffsetSeconds(timezone))}

\* The timestamps of the rows of all measurements inside the range given by
\* the wall-clock inputs and the zone.
RowsInRange ==
    UNION {{t \in DOMAIN db[i].rows :
              /\ Seconds(start_local - UtcOffsetSeconds(timezone)) <= t
              /\ t < Seconds(end_local - UtcOffsetSeconds(timezone))} :
           i \in DOMAIN db}

\* C16: calculate_data_hours returns the time between the earliest and the
\* latest row of the range over all measurements (here in ticks, not hours);
\* it returns 0 when the zone is unknown, the timestamps cannot be built,
\* there is no measurement, no measurement has a row in the range, or a
\* query raises; it never returns a negative value.
C16_DataHours ==
    pc = "load" =>
        /\ total_hours >= 0
        /\ IF \/ timezone \notin {"Asia/Kolkata", "UTC"}
              \/ ~datetime_ok
              \/ db = <<>>
              \/ "Error calculating data hours" \in Range(reported)
           THEN total_hours = 0
           ELSE IF RowsInRange = {} THEN total_hours = 0
           ELSE \E first, last \in RowsInRange :
                    /\ \A t \in RowsInRange : first <= t /\ t <= last
                    /\ total_hours = last - first

\* C16 happens: two measurements have rows in the range, the second holds
\* the earliest one, and a duration above 0 was returned.
C16_Witness ==
    /\ pc = "load"
    /\ total_hours > 0
    /\ Len(db) = 2
    /\ RowsInRange \cap DOMAIN db[1].rows # {}
    /\ \E t \in RowsInRange \cap DOMAIN db[2].rows :
         \A u \in RowsInRange \cap DOMAIN db[1].rows : t < u

\* C17: get_frequency sends exactly one row query per window, in ascending
\* window order and none twice: the i-th query names the i-th window of the
\* schedule; a step sends at most one query, for the window at the cursor,
\* and it is sent only once the pass before has stored its batch and moved
\* the cursor to that window's end.
C17_OneQueryPerWindowInOrder ==
    /\ [](\A i \in DOMAIN queries :
             /\ queries[i].lo = RangeStart + (i - 1) * WindowSize
             /\ queries[i].hi = queries[i].lo + WindowSize)
    /\ [][Len(queries') # Len(queries) =>
             /\ queries' = Append(queries, queries'[Len(queries')])
             /\ queries'[Len(queries')].lo = current_time
             /\ queries # <<>> =>
                    /\ current_time = queries[Len(queries)].hi
                    /\ data # <<>> => all_data[Len(all_data)] = data]_vars

\* C17 happens: two windows were queried, one after the other, each returned
\* rows, and the call returned.
C17_Witness ==
    /\ outcome = "returned"
    /\ Len(queries) = 2
    /\ Len(all_data) = 2

\* C18: a window whose query returns no rows leaves the accumulated gap and
\* the batches kept unchanged, and the cursor still moves on by the full
\* window size.
C18_EmptyWindowChangesNothing ==
    [][(BatchProcessed /\ data' = <<>>) =>
         /\ total_gap_duration' = total_gap_duration
         /\ all_data' = all_data
         /\ current_time' = current_time + WindowSize]_vars

\* C18 happens: after a window with a gap in its rows, a window without rows
\* was queried.
C18_Witness ==
    /\ Len(queries) >= 2
    /\ outcome = "running"
    /\ data = <<>>
    /\ all_data # <<>>
    /\ total_gap_duration > 0
    /\ current_time = queries[Len(queries)].hi

\* The gap found inside each of the batches kept, added up, in whole seconds.
RECURSIVE ExcessWithinBatches(_)
ExcessWithinBatches(batches) ==
    IF batches = <<>> THEN 0
    ELSE ExcessOfWholeSeconds(Head(batches)) + ExcessWithinBatches(Tail(batches))

\* C19: gap detection starts anew in every window: the accumulated gap is the
\* sum of what is found between consecutive samples inside each batch, so
\* the interval from the last sample of one window to the first sample of a
\* later one adds nothing, nor does the interval from a window's start to
\* its first sample or from its last sample to its end.
C19_GapsRestartPerWindow ==
    total_gap_duration = Seconds(ExcessWithinBatches(all_data))

\* C19 happens: two windows each returned one sample, more than the threshold
\* apart and more than the threshold from the window bounds, and no gap was
\* accumulated.
C19_Witness ==
    /\ Len(all_data) = 2
    /\ Len(queries) = 2
    /\ Len(all_data[1]) = 1
    /\ all_data[2][1].time - all_data[1][1].time > Seconds(GapThresholdSeconds + 1)
    /\ all_data[1][1].time - queries[1].lo > Seconds(GapThresholdSeconds)
    /\ queries[2].hi - all_data[2][Len(all_data[2])].time > Seconds(GapThresholdSeconds + 1)
    /\ total_gap_duration = 0

\* C20: over the one-hour range of a store sampled every 5 seconds but for a
\* 20-minute outage from minute 10 on, get_frequency queries exactly the two
\* windows [00:00, 00:30) and [00:30, 01:00), accumulates a gap of
\* 1200 s - 10 s, and counts for temp the samples present.
C20_OutageScenario ==
    (store = SampledStore(5, 3600, 10, 20) /\ outcome = "returned") =>
        /\ Len(queries) = 2
        /\ queries[1].lo = RangeStart /\ queries[1].hi = RangeStart + Seconds(1800)
        /\ queries[2].lo = RangeStart + Seconds(1800)
        /\ queries[2].hi = RangeStart + Seconds(3600)
        /\ total_gap_duration = Seconds(1200 - 10)
        /\ returned[1]["c1"]["temp"] = Cardinality(DOMAIN store)

\* The rows of the store inside the i-th window queried.
RowsOfWindow(i) == {t \in DOMAIN store : queries[i].lo <= t /\ t < queries[i].hi}

\* The windows whose query returned: all but one that raised.
WindowsAnswered ==
    IF error = "QueryError" THEN 1..(Len(queries) - 1) ELSE DOMAIN queries

\* The timestamps of all rows kept.
TimesKept == {Flatten(all_data)[k].time : k \in DOMAIN Flatten(all_data)}

\* C21: of a window that holds more rows than the row cap only the first cap
\* rows in ascending time order are kept for gap detection and counting; no
\* later query fetches the others, since the next window starts a full
\* window size on; and what is returned is the table and the effective
\* duration alone, with no mark of a truncation.
C21_CapTruncatesSilently ==
    /\ \A i \in WindowsAnswered :
         /\ TimesKept \cap RowsOfWindow(i)
               = {t \in RowsOfWindow(i) :
                    Cardinality({u \in RowsOfWindow(i) : u < t}) < queries[i].limit}
         /\ i > 1 => queries[i].lo = queries[i - 1].lo + WindowSize
    /\ \A k \in 1..(Len(Flatten(all_data)) - 1) :
         Flatten(all_data)[k].time < Flatten(all_data)[k + 1].time
    /\ outcome = "returned" =>
         /\ Len(returned) = 2
         /\ DOMAIN returned[1] = {can_id_fields[i].can_id : i \in DOMAIN can_id_fields}
         /\ \A p \in MapPairs :
               p[2] \in columns =>
                  returned[1][p[1]][p[2]]
                     = Cardinality({t \in TimesKept : p[2] \in store[t]})

\* C21 happens: the first window held more rows than the cap, a second
\* window was queried after it, and the call returned.
C21_Witness ==
    /\ outcome = "returned"
    /\ Len(queries) = 2
    /\ Cardinality(RowsOfWindow(1)) > batch_size
    /\ Len(all_data[1]) = batch_size

\* The timestamps of a batch are non-decreasing.
Ordered(batch) == \A k \in 1..(Len(batch) - 1) : batch[k].time <= batch[k + 1].time

\* C22: the time order of each batch is verified: a batch whose timestamps
\* are not non-decreasing is detected before gap detection, so the pass that
\* received it either ends the call with an error or keeps the batch out of
\* the gap and the rows accumulated.
C22_BatchOrderVerified ==
    [][(Len(queries') = Len(queries) + 1 /\ data' # data /\ ~Ordered(data')) =>
         \/ outcome' = "raised"
         \/ (all_data' = all_data /\ total_gap_duration' = total_gap_duration)]_vars

\* C25: during a run of get_frequency the accumulated gap is never below 0
\* and no pass of the loop lowers it, in whatever order the rows of a batch
\* arrive: a negative or small delta adds nothing.
C25_GapNeverDecreases ==
    /\ [](total_gap_duration >= 0)
    /\ [][total_gap_duration' >= total_gap_duration]_vars

\* C25 happens: a batch arrived with a delta below minus the threshold beside
\* a delta above the threshold, and the gap accumulated is that of the
\* latter.
C25_Witness ==
    /\ Len(data) = 3
    /\ \E k \in 1..2 : Epoch(data[k + 1].time) - Epoch(data[k].time) < 0 - GapThresholdSeconds
    /\ \E k \in 1..2 : Epoch(data[k + 1].time) - Epoch(data[k].time) > GapThresholdSeconds
    /\ total_gap_duration > 0
    /\ all_data = <<data>>

\* ceil((end - start) / window_size) for start < end, from the inputs in
\* seconds.
WindowsNeeded ==
    IF end_local <= start_local THEN 0
    ELSE ((end_local - start_local) + WindowMinutes * 60 - 1) \div (WindowMinutes * 60)

\* C23: the window loop is finite: the call ends; no query raising, it has
\* sent exactly ceil((end - start) / window_size) queries when the loop is
\* left and never more before; for start >= end it sends none and returns
\* the table with every count 0.
C23_LoopIsFinite ==
    /\ <>(outcome # "running")
    /\ [](Len(queries) <= WindowsNeeded)
    /\ []((outcome # "running" /\ error # "QueryError") => Len(queries) = WindowsNeeded)
    /\ []((end_local <= start_local /\ outcome # "running") =>
             /\ outcome = "returned"
             /\ queries = <<>>
             /\ \A p \in MapPairs : returned[1][p[1]][p[2]] = 0)

\* C23 happens: a range that is no multiple of the window size was gone
\* through in two queries and the call returned.
C23_Witness ==
    /\ outcome = "returned"
    /\ Len(queries) = 2
    /\ (end_local - start_local) % (WindowMinutes * 60) # 0
    /\ store # <<>>

\* What one call of get_frequency on the measurement at hand yields by
\* itself: the gap found inside the rows of each window queried, and the
\* count of a field over the rows of those windows.
GapOfThisCall ==
    ExcessWithinBatches([i \in DOMAIN queries |->
                           QueryRows(queries[i].lo, queries[i].hi, queries[i].limit)])

CountOfThisCall(f) ==
    Cardinality({t \in DOMAIN store :
                   /\ f \in store[t]
                   /\ \E i \in DOMAIN queries : queries[i].lo <= t /\ t < queries[i].hi})

\* C24: every call of get_frequency starts from an accumulated gap of 0, no
\* rows kept and a table of zeros, so with main going through the
\* measurements one after another, what a call returns is what the
\* measurement at hand yields by itself, whatever was processed before.
C24_CallsAreIndependent ==
    /\ [][measurement_no' # measurement_no =>
             /\ total_gap_duration' = 0
             /\ all_data' = <<>>
             /\ \A i \in DOMAIN can_id_fields' :
                   \A f \in Range(can_id_fields'[i].fields) :
                       frequency_dict'[can_id_fields'[i].can_id][f] = 0]_vars
    /\ [](outcome = "returned" =>
             /\ returned[2] = (RangeEnd - RangeStart) - Seconds(GapOfThisCall)
             /\ \A p \in MapPairs :
                   returned[1][p[1]][p[2]] = CountOfThisCall(p[2]))

\* C24 happens: the first measurement was returned with rows and a gap, and
\* the second, with rows of its own and no gap, has been returned as well.
C24_Witness ==
    /\ measurement_no = 2
    /\ outcome = "returned"
    /\ Len(printed) = 1
    /\ printed[1][2] < RangeEnd - RangeStart
    /\ all_data # <<>>
    /\ can_id_fields # <<>>
    /\ returned[2] = RangeEnd - RangeStart
    /\ returned[1]["c1"]["f1"] = Cardinality(DOMAIN store)

\* C26: for start < end and a store that answers every window query with
\* time-ordered rows inside the interval queried, the effective duration
\* get_frequency returns is never negative: the accumulated gap never
\* exceeds end - start.
C26_EffectiveDurationNotNegative ==
    (RangeStart < RangeEnd /\ outcome = "returned") =>
        /\ total_gap_duration <= RangeEnd - RangeStart
        /\ returned[2] >= 0

\* C27: in run_queries of 1.0.2_2, once the client has been created, every
\* return path closes it exactly once before returning: it is not closed
\* while the run goes on, it is closed once when the run has ended, and no
\* query is sent after the close.
C27_ClientClosedOnce ==
    /\ [](version = "1.0.2_2" =>
             /\ pc # "done" => (closes = 0 /\ client # "closed")
             /\ (pc = "done" /\ "Connected to InfluxDB." \in Range(reported)) =>
                    (closes = 1 /\ client = "closed"))
    /\ [][(version = "1.0.2_2" /\ client = "closed") => sent' = sent]_vars

\* C27 happens: a run of 1.0.2_2 that sent queries ended at the discovery of
\* the fields failing, with the client closed.
C27_Witness ==
    /\ version = "1.0.2_2"
    /\ pc = "done"
    /\ client = "closed"
    /\ sent # <<>>
    /\ "Error fetching measurements/fields" \in Range(reported)

\* C28: a click on Run disables the button before the worker starts and the
\* button stays disabled until that worker has ended, so at most one worker
\* is active; the button is enabled again in the end, whether run_queries
\* returns at its end, returns early or raises.
C28_OneWorkerButtonReenabled ==
    /\ [](workers <= 1)
    /\ [](run_button = "disabled" <=> workers = 1)
    /\ [][workers' > workers => (run_button = "normal" /\ run_button' = "disabled")]_vars
    /\ (run_button = "disabled") ~> (run_button = "normal")

\* C28 happens: the first worker has ended and a second click has started a
\* worker that is counting, the button disabled.
C28_Witness ==
    /\ clicks = 2
    /\ workers = 1
    /\ run_button = "disabled"
    /\ pc = "count"
    /\ results_list # <<>>

\* C29: saving the metadata template and then loading it is a round trip:
\* after a load that follows a save, every metadata entry of the form and
\* the comments hold what they held when saved.
C29_MetadataRoundTrip ==
    (last_handler = "load" /\ saved_form # <<>>) =>
        /\ metadata_entries = saved_form[1].entries
        /\ comments_text = saved_form[1].comments

\* The lines read so far that open a block: not blank, and unindented or
\* first of the file or right after a blank line.
Openers ==
    {i \in 1..line_no :
        /\ file_lines[i].parts # <<>>
        /\ \/ ~file_lines[i].indented
           \/ i = 1
           \/ file_lines[i - 1].parts = <<>>}

\* The lines read so far that follow the opener h within its block.
LinesOfBlock(h) ==
    {i \in (h + 1)..line_no :
        \A j \in (h + 1)..i : file_lines[j].parts # <<>> /\ j \notin Openers}

\* The field an opening line brings along: its second tab-separated part.
FirstFields(h) ==
    IF Len(file_lines[h].parts) >= 2 THEN <<file_lines[h].parts[2]>> ELSE <<>>

\* The last line read so far that opens a block under the name key.
LastOpener(key) ==
    CHOOSE h \in Openers :
        /\ file_lines[h].parts[1] = key
        /\ \A g \in Openers : file_lines[g].parts[1] = key => g <= h

\* The entries are those of the names that opened a block, each once, and an
\* entry holds the fields of the last block its name opened, and no others.
LaterBlockReplaces ==
    /\ {parsed[k].measurement : k \in DOMAIN parsed}
            = {file_lines[h].parts[1] : h \in Openers}
    /\ \A j, k \in DOMAIN parsed : parsed[j].measurement = parsed[k].measurement => j = k
    /\ \A k \in DOMAIN parsed :
         LET h == LastOpener(parsed[k].measurement)
             first == FirstFields(h)
         IN  /\ Len(parsed[k].fields) = Len(first) + Cardinality(LinesOfBlock(h))
             /\ SubSeq(parsed[k].fields, 1, Len(first)) = first
             /\ \A i \in LinesOfBlock(h) :
                  parsed[k].fields[Len(first) + i - h] = StrippedLine(file_lines[i])

\* A blank line just read has cleared the current measurement.
BlankLineClears ==
    (line_no >= 1 /\ file_lines[line_no].parts = <<>>) => current_measurement = ""

\* C30 as stated: a blank line clears the current measurement; an indented
\* line that follows a blank line or opens the file starts an entry keyed by
\* its own text, and is appended to no earlier measurement; the later block
\* of a repeated name replaces the earlier block's field list.
C30_IndentedOpenerKeyedByOwnText ==
    /\ BlankLineClears
    /\ (line_no \in Openers /\ file_lines[line_no].indented) =>
           /\ current_measurement = StrippedLine(file_lines[line_no])
           /\ \E k \in DOMAIN parsed :
                parsed[k].measurement = StrippedLine(file_lines[line_no])
    /\ LaterBlockReplaces

\* C30, amended: a blank line clears the current measurement; an indented
\* line that follows a blank line or opens the file starts an entry keyed by
\* the first tab-separated part of its text, its second part the entry's
\* first field, and is appended to no earlier measurement; the later block
\* of a repeated name replaces the earlier block's field list.
C30_IndentedOpenerKeyedByFirstPart ==
    /\ BlankLineClears
    /\ (line_no \in Openers /\ file_lines[line_no].indented) =>
           /\ current_measurement = file_lines[line_no].parts[1]
           /\ \E k \in DOMAIN parsed :
                /\ parsed[k].measurement = file_lines[line_no].parts[1]
                /\ parsed[k].fields = FirstFields(line_no)
    /\ LaterBlockReplaces

\* C30 happens: a block of m1 with a field, a blank line, an indented line
\* that became an entry of its own, and a second block of m1 that emptied
\* the first one's field list.
C30_Witness ==
    /\ line_no = 4
    /\ file_lines[1].parts = <<"m1", "f1">>
    /\ file_lines[2].parts = <<>>
    /\ file_lines[3].indented
    /\ file_lines[4].parts = <<"m1">>
    /\ Len(parsed) = 2
    /\ parsed[1] = [measurement |-> "m1", fields |-> <<>>]
    /\ parsed[2].measurement = file_lines[3].parts[1]

====
